---- MODULE Spec2Model ----
(***************************************************************************)
(* Model of bitbang_ft2232.c: a NAND flash reader that bit-bangs the       *)
(* command / address / data-output protocol over two 8-bit FTDI channels   *)
(* (channel A = I/O bus, channel B = control bus).                         *)
(*                                                                         *)
(* The program is sequential.  Its position is a call stack of frames;     *)
(* every hardware access (a write of one byte to a channel, a read of the  *)
(* pins, a change of the I/O direction) is one step of the model.          *)
(***************************************************************************)
EXTENDS Integers, Sequences, FiniteSets, TLC

(* ------------------------------------------------------------------ *)
(* Program constants                                                   *)
(* ------------------------------------------------------------------ *)
PIN_CLE == 1
PIN_ALE == 2
PIN_nCE == 4
PIN_nWE == 8
PIN_nRE == 16
PIN_nWP == 32
PIN_RDY == 64
PIN_LED == 128
CONTROLBUS_BITMASK == 191
STATUSREG_IO0 == 1
EXIT_FAILURE == 1
CMD_READID == 144
CMD_READ1 == <<0, 48>>
CMD_BLOCKERASE == <<96, 208>>
CMD_READSTATUS == 112
OFF == 0
ON == 1
IOBUS_IN == 0
IOBUS_OUT == 1
ID_register_exp == <<173, 220, 16, 149, 84>>
ID_LENGTH == 5
PAGE_BYTES == 2112
BLOCK_BYTES == 2048 * 64

(* ------------------------------------------------------------------ *)
(* Bounds of the model                                                 *)
(* ------------------------------------------------------------------ *)
\* pages read by dump_memory (64 * 4096 in the program)
NumPages == 2
\* bytes clocked out of the device per page (2112 in the program)
PageLen == 2
\* busy reads of the control bus that are logged in one busy-wait
MaxPolls == 1
\* erase_block calls the driver makes in one session
MaxErase == 1
\* largest block id passed to erase_block by a caller of the model
MaxBlock == 1
\* longest address array handed to latch_address by the call harness
MaxAddrLen == 2
\* largest count handed to latch_register by the call harness
MaxRegLen == 2

\* marker for "no value": an uninitialised byte, a released (high-Z) bus
None == 0 - 1

(* ------------------------------------------------------------------ *)
(* Bit operations on naturals                                          *)
(* ------------------------------------------------------------------ *)
RECURSIVE BitAnd(_, _)
BitAnd(a, b) ==
    IF a = 0 \/ b = 0 THEN 0
    ELSE (a % 2) * (b % 2) + 2 * BitAnd(a \div 2, b \div 2)

BitOr(a, b) == a + b - BitAnd(a, b)

BitXor(a, b) == a + b - 2 * BitAnd(a, b)

RECURSIVE Pow2(_)
Pow2(n) == IF n = 0 THEN 1 ELSE 2 * Pow2(n - 1)

ShiftR(a, n) == a \div Pow2(n)

\* (unsigned char) x
ToUChar(x) == x % 256

\* C truth value of (value & pin)
IsSet(value, pin) == BitAnd(value, pin) # 0

(* ------------------------------------------------------------------ *)
(* uint32_t: a pair <<high half, low half>> of 16-bit values           *)
(* ------------------------------------------------------------------ *)
HALF == 65536

U32(n) == <<(n \div HALF) % HALF, n % HALF>>

U32Add(x, y) ==
    << (x[1] + y[1] + ((x[2] + y[2]) \div HALF)) % HALF, (x[2] + y[2]) % HALF >>

U32And(x, y) == << BitAnd(x[1], y[1]), BitAnd(x[2], y[2]) >>

U32ShiftR(x, n) ==
    IF n >= 16 THEN << 0, x[1] \div Pow2(n - 16) >>
    ELSE << x[1] \div Pow2(n),
            (x[2] \div Pow2(n)) + (x[1] % Pow2(n)) * Pow2(16 - n) >>

\* x * n modulo 2^32, by doubling
RECURSIVE U32Mul(_, _)
U32Mul(x, n) ==
    IF n = 0 THEN <<0, 0>>
    ELSE U32Add(IF n % 2 = 1 THEN x ELSE <<0, 0>>, U32Mul(U32Add(x, x), n \div 2))

\* (unsigned char) x for a uint32_t x
U32ToUChar(x) == x[2] % 256

(* ------------------------------------------------------------------ *)
(* State                                                               *)
(* ------------------------------------------------------------------ *)
VARIABLES
    controlbus_value,  \* held control byte (global)
    iobus_value,       \* held I/O byte (global)
    iobus_dir,         \* direction of channel A as set by ftdi_set_bitmode
    hw_controlbus,     \* last byte written to channel B
    hw_iobus,          \* last byte written to channel A
    dev_cmd,           \* device: last command latched
    dev_col,           \* device: column counter of the data output
    dev_out,           \* device: byte it drives on the I/O lines, or None
    stack,             \* call stack of the program
    ID_register,       \* main's ID_register[5]
    mem_large_block,   \* dump_memory's page buffer
    status_register,   \* erase_block's status byte
    reg,               \* buffer of a harness call of latch_register
    mem_address,       \* dump_memory's / erase_block's mem_address
    addr_cylces,       \* dump_memory's / erase_block's addr_cylces[5]
    page_idx,          \* dump_memory's loop counter
    controlbus_val,    \* value of the last control-bus read of a busy-wait
    sink,              \* contents of flashdump.bin, one entry per fwrite
    page_reads,        \* history: the page buffer as each page read ended
    id_result,         \* line printed by check_ID_register
    n_erase,           \* erase_block calls made by the driver
    trace,             \* history: bus accesses of the current operation
    events,            \* history: what the device saw in the current operation
    last               \* history: the call that returned most recently

busVars == <<controlbus_value, iobus_value, iobus_dir, hw_controlbus, hw_iobus>>
devVars == <<dev_cmd, dev_col, dev_out>>
bufVars == <<ID_register, mem_large_block, status_register, reg>>
locVars ==
    <<mem_address, addr_cylces, page_idx, controlbus_val, sink, page_reads,
      id_result, n_erase>>
histVars == <<trace, events, last>>
vars == <<busVars, devVars, stack, bufVars, locVars, histVars>>

(* ------------------------------------------------------------------ *)
(* Call stack                                                          *)
(* ------------------------------------------------------------------ *)
top == stack[Len(stack)]

At(fn, pc) == Len(stack) > 0 /\ top.fn = fn /\ top.pc = pc

Goto(pc) == [stack EXCEPT ![Len(stack)].pc = pc]

GotoIdx(pc, i) == [stack EXCEPT ![Len(stack)] = [@ EXCEPT !.pc = pc, !.idx = i]]

\* the state a callee is entered in; tr is the trace at that moment
Snapshot(tr) ==
    [controlbus_value |-> controlbus_value, iobus_value |-> iobus_value,
     iobus_dir |-> iobus_dir, hw_controlbus |-> hw_controlbus,
     hw_iobus |-> hw_iobus, tlen |-> Len(tr),
     bufs |-> <<ID_register, mem_large_block, status_register, reg>>]

Frame(fn, args, len, dst, pre) ==
    [fn |-> fn, pc |-> "entry", idx |-> 0, args |-> args, len |-> len,
     dst |-> dst, pre |-> pre]

\* the caller continues at retpc once the callee has returned
Call(retpc, fn, args, len, dst, tr) ==
    Append(Goto(retpc), Frame(fn, args, len, dst, Snapshot(tr)))

Return(r) ==
    /\ stack' = SubSeq(stack, 1, Len(stack) - 1)
    /\ last' = [fn |-> top.fn, args |-> top.args, len |-> top.len,
                dst |-> top.dst, ret |-> r, pre |-> top.pre]

NoCall ==
    [fn |-> "none", args |-> <<>>, len |-> 0, dst |-> "none", ret |-> None,
     pre |-> [controlbus_value |-> 0, iobus_value |-> 0, iobus_dir |-> IOBUS_OUT,
              hw_controlbus |-> 0, hw_iobus |-> 0, tlen |-> 0, bufs |-> <<>>]]

(* ------------------------------------------------------------------ *)
(* The flash device, as the datasheet excerpts in the source describe  *)
(* it: it latches a command / an address on the rising edge of nWE,    *)
(* and drives the I/O lines while nCE and nRE are low.                 *)
(* ------------------------------------------------------------------ *)
PageBytes == {0, 165}
StatusBytes == {224, 225}
FloatBytes == {0, 255}

\* bytes the device may present at column col after command cmd (the model
\* counts columns up to ID_LENGTH: it does not tell later columns apart)
DeviceBytes(cmd, col) ==
    IF cmd = CMD_READID /\ col < ID_LENGTH THEN {ID_register_exp[col + 1], 0}
    ELSE IF cmd = CMD_READSTATUS THEN StatusBytes
    ELSE PageBytes

\* the device drives the I/O lines
OutEn(c) == ~IsSet(c, PIN_nCE) /\ ~IsSet(c, PIN_nRE)

RisingWE(old, new) ==
    ~IsSet(new, PIN_nCE) /\ ~IsSet(old, PIN_nWE) /\ IsSet(new, PIN_nWE)

LatchKind(c) ==
    IF IsSet(c, PIN_CLE) /\ ~IsSet(c, PIN_ALE) THEN "CLE"
    ELSE IF IsSet(c, PIN_ALE) /\ ~IsSet(c, PIN_CLE) THEN "ALE"
    ELSE IF IsSet(c, PIN_ALE) /\ IsSet(c, PIN_CLE) THEN "CLE+ALE"
    ELSE "DATA"

\* what the engine drives on the I/O lines
Driven == IF iobus_dir = IOBUS_OUT THEN hw_iobus ELSE None

\* the device's reaction to the control byte changing from old to new;
\* ev is the event history to extend
DeviceSees(old, new, ev) ==
    IF RisingWE(old, new) THEN
        /\ events' = Append(ev, <<LatchKind(new), Driven>>)
        /\ dev_cmd' = IF LatchKind(new) = "CLE" THEN Driven ELSE dev_cmd
        /\ dev_col' = IF LatchKind(new) = "CLE" THEN 0 ELSE dev_col
        /\ dev_out' = dev_out
    ELSE IF OutEn(new) /\ ~OutEn(old) THEN
        \E b \in DeviceBytes(dev_cmd, dev_col) :
            /\ dev_out' = b
            /\ dev_col' = IF dev_col < ID_LENGTH THEN dev_col + 1 ELSE dev_col
            /\ dev_cmd' = dev_cmd
            /\ events' = Append(ev, <<"nRE_low", b>>)
    ELSE IF OutEn(old) /\ ~OutEn(new) THEN
        /\ dev_out' = None
        /\ events' = Append(ev, <<"nRE_high", None>>)
        /\ UNCHANGED <<dev_cmd, dev_col>>
    ELSE
        /\ events' = ev
        /\ UNCHANGED devVars

(* ------------------------------------------------------------------ *)
(* ControlBus and DataBus                                              *)
(* ------------------------------------------------------------------ *)
controlbus_pin_set(value, pin, val) ==
    IF val = ON THEN BitOr(value, pin)
    ELSE BitAnd(value, BitXor(255, pin))

\* writes the held control byte (value) to channel B
controlbus_update_output(value, tr, ev) ==
    /\ hw_controlbus' = value
    /\ trace' = Append(tr, <<"ctl", value>>)
    /\ DeviceSees(hw_controlbus, value, ev)

\* controlbus_pin_set(pin, val); controlbus_update_output();
PinSetAndUpdate(pin, val, tr, ev) ==
    LET value == controlbus_pin_set(controlbus_value, pin, val) IN
    /\ controlbus_value' = value
    /\ controlbus_update_output(value, tr, ev)

\* iobus_set_value(value); iobus_update_output();
iobus_write(value) ==
    /\ iobus_value' = value
    /\ hw_iobus' = value
    /\ trace' = Append(trace, <<"io", value>>)

iobus_set_direction(inout) ==
    /\ iobus_dir' = inout
    /\ trace' = Append(trace, <<"dir", inout>>)

\* values ftdi_read_pins can return on channel A
iobus_read_input ==
    IF dev_out # None
    THEN (IF iobus_dir = IOBUS_OUT THEN {dev_out, hw_iobus} ELSE {dev_out})
    ELSE (IF iobus_dir = IOBUS_OUT THEN {hw_iobus} ELSE FloatBytes)

\* values ftdi_read_pins can return on channel B: the driven pins, and RDY
\* as the device sets it
controlbus_read_input ==
    {BitOr(BitAnd(hw_controlbus, CONTROLBUS_BITMASK), r) : r \in {0, PIN_RDY}}

(* ------------------------------------------------------------------ *)
(* AddressMapper and the ID comparison                                 *)
(* ------------------------------------------------------------------ *)
\* the masks 0x000000FF, 0x00000F00, 0x000FF000, 0x0FF00000, 0x30000000
CycleMasks == << <<0, 255>>, <<0, 3840>>, <<15, 61440>>, <<4080, 0>>, <<12288, 0>> >>
CycleShifts == <<0, 8, 12, 20, 28>>

\* mutant: the fifth cycle takes all four top bits of the address
get_address_cycle_map_x8_wide(a) ==
    [i \in 1..5 |->
        U32ToUChar(U32ShiftR(U32And(a, IF i = 5 THEN <<61440, 0>> ELSE CycleMasks[i]),
                             CycleShifts[i]))]

get_address_cycle_map_x8(a) ==
    [i \in 1..5 |-> U32ToUChar(U32ShiftR(U32And(a, CycleMasks[i]), CycleShifts[i]))]

\* strncmp of the C library on byte arrays: compares at most n bytes and
\* stops after a NUL byte that both arrays hold
RECURSIVE strncmp(_, _, _)
strncmp(s1, s2, n) ==
    IF n = 0 THEN 0
    ELSE IF Head(s1) # Head(s2) THEN Head(s1) - Head(s2)
    ELSE IF Head(s1) = 0 THEN 0
    ELSE strncmp(Tail(s1), Tail(s2), n - 1)

\* mutant: one byte too few compared
check_ID_register_short(id) ==
    IF strncmp(ID_register_exp, id, ID_LENGTH - 1) = 0 THEN "PASS" ELSE "FAIL"

\* the line check_ID_register prints
check_ID_register(id) ==
    IF strncmp(ID_register_exp, id, ID_LENGTH) = 0 THEN "PASS" ELSE "FAIL"

(* ------------------------------------------------------------------ *)
(* ProtocolEngine: latch_command                                       *)
(* ------------------------------------------------------------------ *)
\* mutant: the nRE test of lines 335-339 left out
latch_command_precond_no_nRE(value) == ~IsSet(value, PIN_nCE)

latch_command_precond(value) ==
    ~IsSet(value, PIN_nCE) /\ IsSet(value, PIN_nRE)

lc_entry ==
    /\ At("latch_command", "entry")
    /\ IF ~latch_command_precond(controlbus_value)
       THEN /\ Return(EXIT_FAILURE)
            /\ UNCHANGED <<busVars, devVars, bufVars, locVars, trace, events>>
       ELSE /\ PinSetAndUpdate(PIN_CLE, ON, trace, events)
            /\ stack' = Goto("nwe_low")
            /\ UNCHANGED <<iobus_value, iobus_dir, hw_iobus, bufVars, locVars, last>>

\* mutant: the second write leaves nWE high, so that no edge follows
lc_nwe_low_stays_high ==
    /\ At("latch_command", "nwe_low")
    /\ PinSetAndUpdate(PIN_nWE, ON, trace, events)
    /\ stack' = Goto("io")
    /\ UNCHANGED <<iobus_value, iobus_dir, hw_iobus, bufVars, locVars, last>>

lc_nwe_low ==
    /\ At("latch_command", "nwe_low")
    /\ PinSetAndUpdate(PIN_nWE, OFF, trace, events)
    /\ stack' = Goto("io")
    /\ UNCHANGED <<iobus_value, iobus_dir, hw_iobus, bufVars, locVars, last>>

lc_io ==
    /\ At("latch_command", "io")
    /\ iobus_write(top.args[1])
    /\ stack' = Goto("nwe_high")
    /\ UNCHANGED <<controlbus_value, hw_controlbus, iobus_dir, devVars, bufVars,
                   locVars, events, last>>

lc_nwe_high ==
    /\ At("latch_command", "nwe_high")
    /\ PinSetAndUpdate(PIN_nWE, ON, trace, events)
    /\ stack' = Goto("cle_low")
    /\ UNCHANGED <<iobus_value, iobus_dir, hw_iobus, bufVars, locVars, last>>

lc_cle_low ==
    /\ At("latch_command", "cle_low")
    /\ PinSetAndUpdate(PIN_CLE, OFF, trace, events)
    /\ Return(0)
    /\ UNCHANGED <<iobus_value, iobus_dir, hw_iobus, bufVars, locVars>>

latch_command == lc_entry \/ lc_nwe_low \/ lc_io \/ lc_nwe_high \/ lc_cle_low

(* ------------------------------------------------------------------ *)
(* ProtocolEngine: latch_address                                       *)
(* ------------------------------------------------------------------ *)
latch_address_precond(value) ==
    /\ ~IsSet(value, PIN_nCE)
    /\ ~IsSet(value, PIN_CLE)
    /\ IsSet(value, PIN_nRE)

la_entry ==
    /\ At("latch_address", "entry")
    /\ IF ~latch_address_precond(controlbus_value)
       THEN /\ Return(EXIT_FAILURE)
            /\ UNCHANGED <<busVars, devVars, bufVars, locVars, trace, events>>
       ELSE /\ PinSetAndUpdate(PIN_ALE, ON, trace, events)
            /\ stack' = Goto("loop")
            /\ UNCHANGED <<iobus_value, iobus_dir, hw_iobus, bufVars, locVars, last>>

\* mutant: ALE stays high when the address bytes have been latched
la_loop_keeps_ALE ==
    /\ At("latch_address", "loop")
    /\ IF top.idx < Len(top.args)
       THEN /\ PinSetAndUpdate(PIN_nWE, OFF, trace, events)
            /\ stack' = Goto("io")
            /\ UNCHANGED <<iobus_value, iobus_dir, hw_iobus, bufVars, locVars, last>>
       ELSE /\ Return(0)
            /\ UNCHANGED <<busVars, devVars, bufVars, locVars, trace, events>>

la_loop ==
    /\ At("latch_address", "loop")
    /\ IF top.idx < Len(top.args)
       THEN /\ PinSetAndUpdate(PIN_nWE, OFF, trace, events)
            /\ stack' = Goto("io")
            /\ UNCHANGED <<iobus_value, iobus_dir, hw_iobus, bufVars, locVars, last>>
       ELSE /\ PinSetAndUpdate(PIN_ALE, OFF, trace, events)
            /\ Return(0)
            /\ UNCHANGED <<iobus_value, iobus_dir, hw_iobus, bufVars, locVars>>

\* mutant: every cycle presents the first address byte
la_io_first_byte ==
    /\ At("latch_address", "io")
    /\ iobus_write(top.args[1])
    /\ stack' = Goto("nwe_high")
    /\ UNCHANGED <<controlbus_value, hw_controlbus, iobus_dir, devVars, bufVars,
                   locVars, events, last>>

la_io ==
    /\ At("latch_address", "io")
    /\ iobus_write(top.args[top.idx + 1])
    /\ stack' = Goto("nwe_high")
    /\ UNCHANGED <<controlbus_value, hw_controlbus, iobus_dir, devVars, bufVars,
                   locVars, events, last>>

la_nwe_high ==
    /\ At("latch_address", "nwe_high")
    /\ PinSetAndUpdate(PIN_nWE, ON, trace, events)
    /\ stack' = GotoIdx("loop", top.idx + 1)
    /\ UNCHANGED <<iobus_value, iobus_dir, hw_iobus, bufVars, locVars, last>>

latch_address == la_entry \/ la_loop \/ la_io \/ la_nwe_high

(* ------------------------------------------------------------------ *)
(* ProtocolEngine: latch_register                                      *)
(* ------------------------------------------------------------------ *)
\* mutant: nWE is not looked at
latch_register_precond_no_nWE(value) ==
    /\ ~IsSet(value, PIN_nCE)
    /\ ~IsSet(value, PIN_ALE)

latch_register_precond(value) ==
    /\ ~IsSet(value, PIN_nCE)
    /\ IsSet(value, PIN_nWE)
    /\ ~IsSet(value, PIN_ALE)

\* reg[idx] = v, for the array the caller passed
Store(dst, idx, v) ==
    /\ ID_register' =
         IF dst = "ID_register" THEN [ID_register EXCEPT ![idx + 1] = v]
         ELSE ID_register
    /\ mem_large_block' =
         IF dst = "mem_large_block" THEN [mem_large_block EXCEPT ![idx + 1] = v]
         ELSE mem_large_block
    /\ status_register' = IF dst = "status_register" THEN v ELSE status_register
    /\ reg' = IF dst = "reg" THEN [reg EXCEPT ![idx + 1] = v] ELSE reg

lr_entry ==
    /\ At("latch_register", "entry")
    /\ IF ~latch_register_precond(controlbus_value)
       THEN /\ Return(EXIT_FAILURE)
            /\ UNCHANGED <<busVars, devVars, bufVars, locVars, trace, events>>
       ELSE /\ iobus_set_direction(IOBUS_IN)
            /\ stack' = Goto("loop")
            /\ UNCHANGED <<controlbus_value, iobus_value, hw_controlbus, hw_iobus,
                           devVars, bufVars, locVars, events, last>>

\* mutant: the direction is restored by the last iteration of the loop, so
\* not at all when the loop does not run
lr_loop_restore_in_loop ==
    /\ At("latch_register", "loop")
    /\ IF top.idx < top.len
       THEN /\ PinSetAndUpdate(PIN_nRE, OFF, trace, events)
            /\ stack' = Goto("read")
            /\ UNCHANGED <<iobus_value, iobus_dir, hw_iobus, bufVars, locVars, last>>
       ELSE /\ IF top.len > 0 THEN iobus_set_direction(IOBUS_OUT)
               ELSE UNCHANGED <<iobus_dir, trace>>
            /\ Return(0)
            /\ UNCHANGED <<controlbus_value, iobus_value, hw_controlbus, hw_iobus,
                           devVars, bufVars, locVars, events>>

\* mutant: the direction stays input when the loop has ended
lr_loop_keeps_input ==
    /\ At("latch_register", "loop")
    /\ IF top.idx < top.len
       THEN /\ PinSetAndUpdate(PIN_nRE, OFF, trace, events)
            /\ stack' = Goto("read")
            /\ UNCHANGED <<iobus_value, iobus_dir, hw_iobus, bufVars, locVars, last>>
       ELSE /\ Return(0)
            /\ UNCHANGED <<busVars, devVars, bufVars, locVars, trace, events>>

lr_loop ==
    /\ At("latch_register", "loop")
    /\ IF top.idx < top.len
       THEN /\ PinSetAndUpdate(PIN_nRE, OFF, trace, events)
            /\ stack' = Goto("read")
            /\ UNCHANGED <<iobus_value, iobus_dir, hw_iobus, bufVars, locVars, last>>
       ELSE /\ iobus_set_direction(IOBUS_OUT)
            /\ Return(0)
            /\ UNCHANGED <<controlbus_value, iobus_value, hw_controlbus, hw_iobus,
                           devVars, bufVars, locVars, events>>

lr_read ==
    /\ At("latch_register", "read")
    /\ \E v \in iobus_read_input :
          /\ Store(top.dst, top.idx, v)
          /\ trace' = Append(trace, <<"rd_io", v>>)
    /\ stack' = Goto("nre_high")
    /\ UNCHANGED <<busVars, devVars, locVars, events, last>>

lr_nre_high ==
    /\ At("latch_register", "nre_high")
    /\ PinSetAndUpdate(PIN_nRE, ON, trace, events)
    /\ stack' = GotoIdx("loop", top.idx + 1)
    /\ UNCHANGED <<iobus_value, iobus_dir, hw_iobus, bufVars, locVars, last>>

latch_register == lr_entry \/ lr_loop \/ lr_read \/ lr_nre_high

(* ------------------------------------------------------------------ *)
(* The busy-wait loop of dump_memory and erase_block                   *)
(* ------------------------------------------------------------------ *)
\* busy reads logged so far in the current operation
BusyPolls(ev) == Cardinality({i \in 1..Len(ev) : ev[i] = <<"RDY", 0>>})

\* mutant: one read of the control bus, and on whatever it returned
BusyWaitOnce(next) ==
    \E v \in controlbus_read_input :
        /\ controlbus_val' = v
        /\ stack' = Goto(next)
        /\ trace' = Append(trace, <<"rd_ctl", v>>)
        /\ events' = Append(events, <<"RDY", IF IsSet(v, PIN_RDY) THEN 1 ELSE 0>>)
        /\ UNCHANGED <<busVars, devVars, bufVars, mem_address, addr_cylces,
                       page_idx, sink, page_reads, id_result, n_erase, last>>

\* mutant: the wait goes on whatever the read returned
BusyWaitDeaf(next) ==
    \E v \in controlbus_read_input :
        /\ controlbus_val' = v
        /\ UNCHANGED <<stack, trace, events>>
        /\ UNCHANGED <<busVars, devVars, bufVars, mem_address, addr_cylces,
                       page_idx, sink, page_reads, id_result, n_erase, last>>

\* do { controlbus_val = controlbus_read_input(); }
\* while( !(controlbus_val & PIN_RDY) );   then continue at next.
\* A busy read beyond MaxPolls is still made, but no longer logged.
BusyWait(next) ==
    \E v \in controlbus_read_input :
        /\ controlbus_val' = v
        /\ IF IsSet(v, PIN_RDY)
           THEN /\ stack' = Goto(next)
                /\ trace' = Append(trace, <<"rd_ctl", v>>)
                /\ events' = Append(events, <<"RDY", 1>>)
           ELSE IF BusyPolls(events) < MaxPolls
           THEN /\ stack' = stack
                /\ trace' = Append(trace, <<"rd_ctl", v>>)
                /\ events' = Append(events, <<"RDY", 0>>)
           ELSE UNCHANGED <<stack, trace, events>>
        /\ UNCHANGED <<busVars, devVars, bufVars, mem_address, addr_cylces,
                       page_idx, sink, page_reads, id_result, n_erase, last>>

(* ------------------------------------------------------------------ *)
(* FlashOperations: erase_block                                        *)
(* ------------------------------------------------------------------ *)
UninitBytes == {0, 255}

\* mem_address = 2048 * 64 * nBlockId, in unsigned 32-bit arithmetic
erase_block_address(nBlockId) == U32Mul(U32(BLOCK_BYTES), nBlockId)

\* lines 646-649: the address, and nWP set in the held byte (no update)
e_entry ==
    /\ At("erase_block", "entry")
    /\ mem_address' = erase_block_address(top.args[1])
    /\ controlbus_value' = controlbus_pin_set(controlbus_value, PIN_nWP, ON)
    /\ status_register' = None
    /\ stack' = Goto("cmd0")
    /\ UNCHANGED <<iobus_value, iobus_dir, hw_controlbus, hw_iobus, devVars,
                   ID_register, mem_large_block, reg, addr_cylces, page_idx,
                   controlbus_val, sink, page_reads, id_result, n_erase, histVars>>

e_cmd0 ==
    /\ At("erase_block", "cmd0")
    /\ stack' = Call("map", "latch_command", <<CMD_BLOCKERASE[1]>>, 0, "none", trace)
    /\ UNCHANGED <<busVars, devVars, bufVars, locVars, histVars>>

\* mutant: the two column cycles are latched as well
e_map_with_columns ==
    /\ At("erase_block", "map")
    /\ addr_cylces' = get_address_cycle_map_x8(mem_address)
    /\ stack' = Call("cmd1", "latch_address", addr_cylces', 0, "none", trace)
    /\ UNCHANGED <<busVars, devVars, bufVars, mem_address, page_idx,
                   controlbus_val, sink, page_reads, id_result, n_erase, histVars>>

\* lines 655-662: the address cycles, and the three row bytes latched
e_map ==
    /\ At("erase_block", "map")
    /\ addr_cylces' = get_address_cycle_map_x8(mem_address)
    /\ stack' = Call("cmd1", "latch_address",
                     <<addr_cylces'[3], addr_cylces'[4], addr_cylces'[5]>>,
                     0, "none", trace)
    /\ UNCHANGED <<busVars, devVars, bufVars, mem_address, page_idx,
                   controlbus_val, sink, page_reads, id_result, n_erase, histVars>>

e_cmd1 ==
    /\ At("erase_block", "cmd1")
    /\ stack' = Call("wait", "latch_command", <<CMD_BLOCKERASE[2]>>, 0, "none", trace)
    /\ UNCHANGED <<busVars, devVars, bufVars, locVars, histVars>>

e_wait ==
    /\ At("erase_block", "wait")
    /\ BusyWait("status_cmd")

e_status_cmd ==
    /\ At("erase_block", "status_cmd")
    /\ stack' = Call("status_reg", "latch_command", <<CMD_READSTATUS>>, 0, "none", trace)
    /\ UNCHANGED <<busVars, devVars, bufVars, locVars, histVars>>

e_status_reg ==
    /\ At("erase_block", "status_reg")
    /\ stack' = Call("wp", "latch_register", <<>>, 1, "status_register", trace)
    /\ UNCHANGED <<busVars, devVars, bufVars, locVars, histVars>>

\* mutant: a failed erase returns at once, before nWP is cleared
e_wp_fail_keeps_nWP ==
    /\ At("erase_block", "wp")
    /\ \E s \in (IF status_register = None THEN UninitBytes ELSE {status_register}) :
          /\ Return(IF IsSet(s, STATUSREG_IO0) THEN 1 ELSE 0)
          /\ controlbus_value' =
               IF IsSet(s, STATUSREG_IO0) THEN controlbus_value
               ELSE controlbus_pin_set(controlbus_value, PIN_nWP, OFF)
    /\ status_register' = None
    /\ UNCHANGED <<iobus_value, iobus_dir, hw_controlbus, hw_iobus, devVars,
                   ID_register, mem_large_block, reg, locVars, trace, events>>

\* mutant: nWP is not cleared at the end of erase_block
e_wp_leaves_nWP ==
    /\ At("erase_block", "wp")
    /\ \E s \in (IF status_register = None THEN UninitBytes ELSE {status_register}) :
          Return(IF IsSet(s, STATUSREG_IO0) THEN 1 ELSE 0)
    /\ status_register' = None
    /\ UNCHANGED <<busVars, devVars, ID_register, mem_large_block, reg, locVars,
                   trace, events>>

\* lines 693-706: nWP cleared in the held byte (no update), and the result.
\* status_register is read; when latch_register failed it was never written.
\* The local ends with the call.
e_wp ==
    /\ At("erase_block", "wp")
    /\ controlbus_value' = controlbus_pin_set(controlbus_value, PIN_nWP, OFF)
    /\ \E s \in (IF status_register = None THEN UninitBytes ELSE {status_register}) :
          Return(IF IsSet(s, STATUSREG_IO0) THEN 1 ELSE 0)
    /\ status_register' = None
    /\ UNCHANGED <<iobus_value, iobus_dir, hw_controlbus, hw_iobus, devVars,
                   ID_register, mem_large_block, reg, locVars, trace, events>>

erase_block ==
    \/ e_entry \/ e_cmd0 \/ e_map \/ e_cmd1 \/ e_wait
    \/ e_status_cmd \/ e_status_reg \/ e_wp

(* ------------------------------------------------------------------ *)
(* DumpDriver: dump_memory                                             *)
(* ------------------------------------------------------------------ *)
UninitBlock == [i \in 1..PageLen |-> None]

\* lines 534-543: flashdump.bin truncated, the start address
d_entry ==
    /\ At("dump_memory", "entry")
    /\ sink' = <<>>
    /\ page_reads' = <<>>
    /\ mem_address' = U32(0)
    /\ page_idx' = 0
    /\ mem_large_block' = UninitBlock
    /\ stack' = Goto("loop")
    /\ UNCHANGED <<busVars, devVars, ID_register, status_register, reg,
                   addr_cylces, controlbus_val, id_result, n_erase, histVars>>

\* lines 544-553: the loop test and the address cycles of the page;
\* lines 615-617 when the loop has ended (the page buffer ends with the call)
d_loop ==
    /\ At("dump_memory", "loop")
    /\ IF page_idx < NumPages
       THEN /\ addr_cylces' = get_address_cycle_map_x8(mem_address)
            /\ trace' = <<>>
            /\ events' = <<>>
            /\ stack' = Goto("cmd0")
            /\ UNCHANGED <<busVars, devVars, bufVars, mem_address, page_idx,
                           controlbus_val, sink, page_reads, id_result, n_erase, last>>
       ELSE /\ Return(None)
            /\ mem_large_block' = UninitBlock
            /\ UNCHANGED <<busVars, devVars, ID_register, status_register, reg,
                           locVars, trace, events>>

d_cmd0 ==
    /\ At("dump_memory", "cmd0")
    /\ stack' = Call("addr", "latch_command", <<CMD_READ1[1]>>, 0, "none", trace)
    /\ UNCHANGED <<busVars, devVars, bufVars, locVars, histVars>>

d_addr ==
    /\ At("dump_memory", "addr")
    /\ stack' = Call("cmd1", "latch_address", addr_cylces, 0, "none", trace)
    /\ UNCHANGED <<busVars, devVars, bufVars, locVars, histVars>>

\* mutant: the data-out follows the second command at once, without the wait
d_cmd1_no_wait ==
    /\ At("dump_memory", "cmd1")
    /\ stack' = Call("read", "latch_command", <<CMD_READ1[2]>>, 0, "none", trace)
    /\ UNCHANGED <<busVars, devVars, bufVars, locVars, histVars>>

d_cmd1 ==
    /\ At("dump_memory", "cmd1")
    /\ stack' = Call("wait", "latch_command", <<CMD_READ1[2]>>, 0, "none", trace)
    /\ UNCHANGED <<busVars, devVars, bufVars, locVars, histVars>>

d_wait ==
    /\ At("dump_memory", "wait")
    /\ BusyWait("read")

d_read ==
    /\ At("dump_memory", "read")
    /\ stack' = Call("read_done", "latch_register", <<>>, PageLen, "mem_large_block", trace)
    /\ UNCHANGED <<busVars, devVars, bufVars, locVars, histVars>>

\* line 576 has returned: the page read is over, its buffer is noted
d_read_done ==
    /\ At("dump_memory", "read_done")
    /\ page_reads' = Append(page_reads, mem_large_block)
    /\ stack' = Goto("write")
    /\ UNCHANGED <<busVars, devVars, bufVars, mem_address, addr_cylces, page_idx,
                   controlbus_val, sink, id_result, n_erase, histVars>>

\* mutant: the first page is not written to the file
d_write_skips_first ==
    /\ At("dump_memory", "write")
    /\ sink' = IF page_idx = 0 THEN sink ELSE Append(sink, mem_large_block)
    /\ mem_address' = U32Add(mem_address, U32(PAGE_BYTES))
    /\ page_idx' = page_idx + 1
    /\ stack' = Goto("loop")
    /\ UNCHANGED <<busVars, devVars, bufVars, addr_cylces, controlbus_val,
                   page_reads, id_result, n_erase, histVars>>

\* lines 609-611: the page appended to the file, the next address
d_write ==
    /\ At("dump_memory", "write")
    /\ sink' = Append(sink, mem_large_block)
    /\ mem_address' = U32Add(mem_address, U32(PAGE_BYTES))
    /\ page_idx' = page_idx + 1
    /\ stack' = Goto("loop")
    /\ UNCHANGED <<busVars, devVars, bufVars, addr_cylces, controlbus_val,
                   page_reads, id_result, n_erase, histVars>>

dump_memory ==
    \/ d_entry \/ d_loop \/ d_cmd0 \/ d_addr \/ d_cmd1 \/ d_wait \/ d_read
    \/ d_read_done \/ d_write

(* ------------------------------------------------------------------ *)
(* main, from the bus reset (line 773) to the end                      *)
(* ------------------------------------------------------------------ *)
\* lines 773-774: controlbus_reset_value(); controlbus_update_output();
m_entry ==
    /\ At("main", "entry")
    /\ controlbus_value' = 0
    /\ controlbus_update_output(0, trace, events)
    /\ stack' = Goto("io_dir")
    /\ UNCHANGED <<iobus_value, iobus_dir, hw_iobus, bufVars, locVars, last>>

\* line 776
m_io_dir ==
    /\ At("main", "io_dir")
    /\ iobus_set_direction(IOBUS_OUT)
    /\ stack' = Goto("io_reset")
    /\ UNCHANGED <<controlbus_value, iobus_value, hw_controlbus, hw_iobus,
                   devVars, bufVars, locVars, events, last>>

\* lines 777-778: iobus_reset_value(); iobus_update_output();
m_io_reset ==
    /\ At("main", "io_reset")
    /\ iobus_write(0)
    /\ stack' = Goto("test_in")
    /\ UNCHANGED <<controlbus_value, hw_controlbus, iobus_dir, devVars, bufVars,
                   locVars, events, last>>

\* line 789
m_test_in ==
    /\ At("main", "test_in")
    /\ iobus_set_direction(IOBUS_IN)
    /\ stack' = Goto("test_read")
    /\ UNCHANGED <<controlbus_value, iobus_value, hw_controlbus, hw_iobus,
                   devVars, bufVars, locVars, events, last>>

\* lines 792-795: both buses read; the values are only printed
m_test_read ==
    /\ At("main", "test_read")
    /\ \E iobus_val \in iobus_read_input, cv \in controlbus_read_input :
          trace' = trace \o << <<"rd_io", iobus_val>>, <<"rd_ctl", cv>> >>
    /\ stack' = Goto("test_out")
    /\ UNCHANGED <<busVars, devVars, bufVars, locVars, events, last>>

\* line 798
m_test_out ==
    /\ At("main", "test_out")
    /\ iobus_set_direction(IOBUS_OUT)
    /\ stack' = Goto("setup")
    /\ UNCHANGED <<controlbus_value, iobus_value, hw_controlbus, hw_iobus,
                   devVars, bufVars, locVars, events, last>>

\* mutant: the setup leaves nRE as the reset set it
m_setup_nRE_low ==
    /\ At("main", "setup")
    /\ LET v2 == controlbus_pin_set(controlbus_value, PIN_nCE, OFF)
           v3 == controlbus_pin_set(v2, PIN_nWP, OFF)
       IN /\ controlbus_value' = v3
          /\ controlbus_update_output(v3, trace, events)
    /\ stack' = Goto("readid_cmd")
    /\ UNCHANGED <<iobus_value, iobus_dir, hw_iobus, bufVars, locVars, last>>

\* lines 801-804: nRE high, nCE low, nWP low, one update
m_setup ==
    /\ At("main", "setup")
    /\ LET v1 == controlbus_pin_set(controlbus_value, PIN_nRE, ON)
           v2 == controlbus_pin_set(v1, PIN_nCE, OFF)
           v3 == controlbus_pin_set(v2, PIN_nWP, OFF)
       IN /\ controlbus_value' = v3
          /\ controlbus_update_output(v3, trace, events)
    /\ stack' = Goto("readid_cmd")
    /\ UNCHANGED <<iobus_value, iobus_dir, hw_iobus, bufVars, locVars, last>>

\* line 810; the histories start anew with each operation
m_readid_cmd ==
    /\ At("main", "readid_cmd")
    /\ trace' = <<>>
    /\ events' = <<>>
    /\ stack' = Call("readid_addr", "latch_command", <<CMD_READID>>, 0, "none", <<>>)
    /\ UNCHANGED <<busVars, devVars, bufVars, locVars, last>>

\* lines 814-815
m_readid_addr ==
    /\ At("main", "readid_addr")
    /\ stack' = Call("readid_reg", "latch_address", <<0>>, 0, "none", trace)
    /\ UNCHANGED <<busVars, devVars, bufVars, locVars, histVars>>

\* line 817
m_readid_reg ==
    /\ At("main", "readid_reg")
    /\ stack' = Call("check_id", "latch_register", <<>>, ID_LENGTH, "ID_register", trace)
    /\ UNCHANGED <<busVars, devVars, bufVars, locVars, histVars>>

\* line 819; main does not read ID_register again, and the model forgets it
m_check_id ==
    /\ At("main", "check_id")
    /\ id_result' = check_ID_register(ID_register)
    /\ ID_register' = [i \in 1..ID_LENGTH |-> None]
    /\ stack' = Goto("ops")
    /\ UNCHANGED <<busVars, devVars, mem_large_block, status_register, reg,
                   mem_address, addr_cylces, page_idx, controlbus_val, sink, page_reads,
                   n_erase, histVars>>

\* line 822
m_dump ==
    /\ At("main", "ops")
    /\ stack' = Call("nce", "dump_memory", <<>>, 0, "none", trace)
    /\ UNCHANGED <<busVars, devVars, bufVars, locVars, histVars>>

\* line 834: nCE set in the held byte (no update)
m_nce ==
    /\ At("main", "nce")
    /\ controlbus_value' = controlbus_pin_set(controlbus_value, PIN_nCE, ON)
    /\ stack' = Goto("close")
    /\ UNCHANGED <<iobus_value, iobus_dir, hw_controlbus, hw_iobus, devVars,
                   bufVars, locVars, histVars>>

\* lines 840-850: both channels leave bit-bang mode and are closed
m_close ==
    /\ At("main", "close")
    /\ stack' = Goto("done")
    /\ UNCHANGED <<busVars, devVars, bufVars, locVars, histVars>>

main ==
    \/ m_entry \/ m_io_dir \/ m_io_reset \/ m_test_in \/ m_test_read
    \/ m_test_out \/ m_setup \/ m_readid_cmd \/ m_readid_addr \/ m_readid_reg
    \/ m_check_id \/ m_dump \/ m_nce \/ m_close

\* lines 824-828, which main holds as a comment: erase_block called from the
\* idle state of the session, here before the dump
m_erase ==
    /\ At("main", "ops")
    /\ n_erase < MaxErase
    /\ \E nBlockId \in 0..MaxBlock :
          stack' = Call("ops", "erase_block", <<nBlockId>>, 0, "none", <<>>)
    /\ n_erase' = n_erase + 1
    /\ trace' = <<>>
    /\ events' = <<>>
    /\ UNCHANGED <<busVars, devVars, bufVars, mem_address, addr_cylces, page_idx,
                   controlbus_val, sink, page_reads, id_result, last>>

(* ------------------------------------------------------------------ *)
(* Initial states                                                      *)
(* ------------------------------------------------------------------ *)
\* the frame a run starts in
Root(fn) == Frame(fn, <<>>, 0, "none", NoCall.pre)

\* the same, with the initial state noted in it
RootNoted(fn) == Frame(fn, <<>>, 0, "none", Snapshot(<<>>))

InitRest ==
    /\ mem_large_block = UninitBlock
    /\ status_register = None
    /\ reg = [i \in 1..MaxRegLen |-> None]
    /\ addr_cylces = [i \in 1..5 |-> None]
    /\ page_idx = 0
    /\ controlbus_val = None
    /\ sink = <<>>
    /\ page_reads = <<>>
    /\ id_result = "none"
    /\ n_erase = 0
    /\ trace = <<>>
    /\ events = <<>>
    /\ last = NoCall

InitLocals ==
    /\ ID_register = [i \in 1..ID_LENGTH |-> None]
    /\ mem_address = U32(0)
    /\ InitRest

\* a device that has latched no command yet, with the control pins at c
InitDevice(c) ==
    /\ dev_cmd = None
    /\ dev_col = 0
    /\ dev_out \in (IF OutEn(c) THEN PageBytes ELSE {None})

\* line 771 of main: both channels open, channel A in output mode (line 749),
\* the globals zero, nothing written yet; the control pins at a level the
\* program has not set
PowerOnLevels == {0, CONTROLBUS_BITMASK}

Init ==
    /\ controlbus_value = 0
    /\ iobus_value = 0
    /\ iobus_dir = IOBUS_OUT
    /\ hw_controlbus \in PowerOnLevels
    /\ hw_iobus = 0
    /\ InitDevice(hw_controlbus)
    /\ InitLocals
    /\ stack = <<Root("main")>>

\* the program as written
Next == main \/ dump_memory \/ latch_command \/ latch_address \/ latch_register

Spec == Init /\ [][Next]_vars

\* the program with the erase loop that main holds as a comment
NextErase == Next \/ m_erase \/ erase_block

SpecErase == Init /\ [][NextErase]_vars

(* ------------------------------------------------------------------ *)
(* Call harness: one call of an operation from any state of the bus    *)
(* that controlbus_pin_set / controlbus_update_output /                *)
(* iobus_set_direction can set up                                      *)
(* ------------------------------------------------------------------ *)
ControlStates == 0..63
HarnessCmds == {CMD_READID, CMD_READSTATUS}
HarnessAddrBytes == {0, 90}
HarnessAddrs == UNION {[1..n -> HarnessAddrBytes] : n \in 0..MaxAddrLen}

InitCalls ==
    /\ controlbus_value \in ControlStates
    /\ hw_controlbus = controlbus_value
    /\ iobus_value = 0
    /\ hw_iobus = 0
    /\ iobus_dir \in {IOBUS_IN, IOBUS_OUT}
    /\ InitDevice(hw_controlbus)
    /\ InitLocals
    /\ stack = <<Root("harness")>>

h_latch_command ==
    /\ At("harness", "entry")
    /\ \E command \in HarnessCmds :
          stack' = Call("done", "latch_command", <<command>>, 0, "none", trace)
    /\ UNCHANGED <<busVars, devVars, bufVars, locVars, histVars>>

h_latch_address ==
    /\ At("harness", "entry")
    /\ \E address \in HarnessAddrs :
          stack' = Call("done", "latch_address", address, 0, "none", trace)
    /\ UNCHANGED <<busVars, devVars, bufVars, locVars, histVars>>

h_latch_register ==
    /\ At("harness", "entry")
    /\ \E reg_length \in 0..MaxRegLen :
          stack' = Call("done", "latch_register", <<>>, reg_length, "reg", trace)
    /\ UNCHANGED <<busVars, devVars, bufVars, locVars, histVars>>

h_erase_block ==
    /\ At("harness", "entry")
    /\ \E nBlockId \in 0..MaxBlock :
          stack' = Call("done", "erase_block", <<nBlockId>>, 0, "none", trace)
    /\ UNCHANGED <<busVars, devVars, bufVars, locVars, histVars>>

NextCalls ==
    \/ h_latch_command \/ h_latch_address \/ h_latch_register \/ h_erase_block
    \/ erase_block \/ latch_command \/ latch_address \/ latch_register

SpecCalls == InitCalls /\ [][NextCalls]_vars

(* ------------------------------------------------------------------ *)
(* Fairness: outside a busy-wait the program always takes its next    *)
(* step, and the device does not keep RDY low for ever once a busy-    *)
(* wait has begun. The behaviours are those of main and those of the   *)
(* single calls.                                                       *)
(* ------------------------------------------------------------------ *)
NextLive == Next \/ NextCalls

\* a step of the program that is not a read of a busy-wait
Progress ==
    /\ ~(At("dump_memory", "wait") \/ At("erase_block", "wait"))
    /\ NextLive

\* a read of the control bus in a busy-wait that finds RDY set
ReadyRead ==
    /\ At("dump_memory", "wait") \/ At("erase_block", "wait")
    /\ NextLive
    /\ IsSet(controlbus_val', PIN_RDY)

\* a read of the control bus in a busy-wait that finds RDY clear
BusyRead ==
    /\ At("dump_memory", "wait") \/ At("erase_block", "wait")
    /\ NextLive
    /\ ~IsSet(controlbus_val', PIN_RDY)

SpecLive ==
    /\ Init \/ InitCalls
    /\ [][NextLive]_vars
    /\ WF_vars(Progress)
    /\ WF_vars(ReadyRead)

(* ------------------------------------------------------------------ *)
(* The pure functions, applied to inputs drawn from bounded sets       *)
(* ------------------------------------------------------------------ *)
\* per position: the expected byte, the byte expected at the next position,
\* 0x00 and 0xFF
IdProbes ==
    {id \in [1..ID_LENGTH -> {0, 16, 84, 149, 173, 220, 255}] :
        \A i \in 1..ID_LENGTH :
            id[i] \in {0, 255, ID_register_exp[i], ID_register_exp[(i % ID_LENGTH) + 1]}}

HighProbes == {0, 15, 16, 4080, 4096, 8192, 12288, 16384, 32768, 65535}
LowProbes == {0, 1, 255, 256, 3840, 4095, 4096, 32768, 61440, 65535}

MapAddresses ==
    {<<h, l>> : h \in HighProbes, l \in LowProbes}
    \cup {U32Mul(U32(PAGE_BYTES), k) : k \in 0..NumPages}
    \cup {erase_block_address(b) : b \in 0..MaxBlock}

IdleControl == PIN_nRE

InitPure ==
    /\ controlbus_value \in {0, IdleControl}
    /\ hw_controlbus = controlbus_value
    /\ iobus_value = 0
    /\ hw_iobus = 0
    /\ iobus_dir = IOBUS_OUT
    /\ InitDevice(hw_controlbus)
    /\ InitRest
    /\ \/ /\ ID_register \in IdProbes
          /\ mem_address = U32(0)
          /\ stack = <<RootNoted("check_ID_register")>>
       \/ /\ ID_register = [i \in 1..ID_LENGTH |-> None]
          /\ mem_address \in MapAddresses
          /\ stack = <<RootNoted("get_address_cycle_map_x8")>>

p_check_ID_register ==
    /\ At("check_ID_register", "entry")
    /\ id_result' = check_ID_register(ID_register)
    /\ stack' = Goto("done")
    /\ UNCHANGED <<busVars, devVars, bufVars, mem_address, addr_cylces, page_idx,
                   controlbus_val, sink, page_reads, n_erase, histVars>>

p_get_address_cycle_map_x8 ==
    /\ At("get_address_cycle_map_x8", "entry")
    /\ addr_cylces' = get_address_cycle_map_x8(mem_address)
    /\ stack' = Goto("done")
    /\ UNCHANGED <<busVars, devVars, bufVars, mem_address, page_idx,
                   controlbus_val, sink, page_reads, id_result, n_erase, histVars>>

NextPure == p_check_ID_register \/ p_get_address_cycle_map_x8

SpecPure == InitPure /\ [][NextPure]_vars

(* ================================================================== *)
(* Claims                                                              *)
(* ================================================================== *)
\* this step returns from fn
Returns(fn) == Len(stack) > 0 /\ top.fn = fn /\ stack' = SubSeq(stack, 1, Len(stack) - 1)

\* the bus is as it was when the returning call was entered, and the call
\* has written to neither channel
NoEffect ==
    /\ controlbus_value' = top.pre.controlbus_value
    /\ iobus_value' = top.pre.iobus_value
    /\ iobus_dir' = top.pre.iobus_dir
    /\ hw_controlbus' = top.pre.hw_controlbus
    /\ hw_iobus' = top.pre.hw_iobus
    /\ Len(trace') = top.pre.tlen

\* the entries a call has added to the trace, given the call's record
Added(tr, pre) == SubSeq(tr, pre.tlen + 1, Len(tr))

Kinds(tr) == {tr[i][1] : i \in 1..Len(tr)}

HarnessDone == At("harness", "done")

\* C1: a latch_command entered with nCE high or with nRE low in the held
\* control byte returns EXIT_FAILURE, leaves the held control byte, the held
\* I/O value and the I/O direction as they were, and writes to neither bus.
C1_LatchCommandRejects ==
    [][ ( /\ Returns("latch_command")
          /\ \/ IsSet(top.pre.controlbus_value, PIN_nCE)
             \/ ~IsSet(top.pre.controlbus_value, PIN_nRE) )
        => (last'.ret = EXIT_FAILURE /\ NoEffect) ]_vars

C1_Witness ==
    /\ HarnessDone
    /\ last.fn = "latch_command"
    /\ ~IsSet(last.pre.controlbus_value, PIN_nCE)
    /\ ~IsSet(last.pre.controlbus_value, PIN_nRE)
    /\ last.ret = EXIT_FAILURE
    /\ trace = <<>>

\* C2: a latch_register entered with nCE low, nWE high and ALE low returns 0
\* with the I/O direction set to output, for every count; with count 0 it
\* reads no byte and writes nothing to the control bus.
C2_DataOutRestoresDirection ==
    [][ ( /\ Returns("latch_register")
          /\ ~IsSet(top.pre.controlbus_value, PIN_nCE)
          /\ IsSet(top.pre.controlbus_value, PIN_nWE)
          /\ ~IsSet(top.pre.controlbus_value, PIN_ALE) )
        => ( /\ last'.ret = 0
             /\ iobus_dir' = IOBUS_OUT
             /\ top.len = 0 =>
                  /\ Kinds(Added(trace', top.pre)) \cap {"rd_io", "ctl", "io"} = {}
                  /\ hw_controlbus' = top.pre.hw_controlbus
                  /\ bufVars' = bufVars ) ]_vars

C2_Witness ==
    /\ HarnessDone
    /\ last.fn = "latch_register"
    /\ last.len = 0
    /\ last.ret = 0
    /\ last.pre.iobus_dir = IOBUS_IN
    /\ iobus_dir = IOBUS_OUT

\* C3: check_ID_register reports a match exactly when all five bytes of the
\* ID equal 0xAD 0xDC 0x10 0x95 0x54, also for IDs that hold 0x00 bytes.
C3_IdMatchIffAllEqual ==
    At("check_ID_register", "done") =>
        ( id_result = "PASS"
          <=> \A i \in 1..ID_LENGTH : ID_register[i] = ID_register_exp[i] )

C3_Witness ==
    /\ At("check_ID_register", "done")
    /\ \A i \in 1..4 : ID_register[i] = ID_register_exp[i]
    /\ ID_register[5] = 0
    /\ id_result = "FAIL"

\* the value of the last I/O read in the trace tr (None when there is none)
LastRead(tr) ==
    LET reads == {i \in 1..Len(tr) : tr[i][1] = "rd_io"} IN
    IF reads = {} THEN None
    ELSE tr[CHOOSE i \in reads : \A j \in reads : j <= i][2]

\* C4: an erase_block entered with nCE low and nRE high in the held control
\* byte returns 1 when the status byte it sampled after the erase has bit 0
\* set and 0 when it has not, and in both cases nWP is clear in the held
\* control byte when it returns.
C4_EraseResultAndWriteProtect ==
    [][ ( /\ Returns("erase_block")
          /\ ~IsSet(top.pre.controlbus_value, PIN_nCE)
          /\ IsSet(top.pre.controlbus_value, PIN_nRE) )
        => ( /\ LastRead(Added(trace', top.pre)) # None
             /\ last'.ret = ( IF IsSet(LastRead(Added(trace', top.pre)), STATUSREG_IO0)
                              THEN 1 ELSE 0 )
             /\ ~IsSet(controlbus_value', PIN_nWP) ) ]_vars

C4_Witness ==
    /\ HarnessDone
    /\ last.fn = "erase_block"
    /\ ~IsSet(last.pre.controlbus_value, PIN_nCE)
    /\ IsSet(last.pre.controlbus_value, PIN_nRE)
    /\ IsSet(LastRead(trace), STATUSREG_IO0)
    /\ last.ret = 1
    /\ ~IsSet(controlbus_value, PIN_nWP)

\* n copies of the event e
Repeat(e, n) == [i \in 1..n |-> e]

\* the toggles of nRE that present the bytes of buf, one low/high pair a byte
Toggles(buf) ==
    [i \in 1..(2 * Len(buf)) |->
        IF i % 2 = 1 THEN <<"nRE_low", buf[(i + 1) \div 2]>>
        ELSE <<"nRE_high", None>>]

\* what the device sees of a page read: command 0x00, the five address
\* cycles cyc, command 0x30, the polls of RDY (busy of them found it low),
\* and the toggles of nRE for the bytes of buf
PageReadEvents(cyc, busy, buf) ==
    << <<"CLE", CMD_READ1[1]>> >>
    \o [i \in 1..5 |-> <<"ALE", cyc[i]>>]
    \o << <<"CLE", CMD_READ1[2]>> >>
    \o Repeat(<<"RDY", 0>>, busy) \o << <<"RDY", 1>> >>
    \o Toggles(buf)

\* C5: when a page read has returned, the device has seen, in this order and
\* nothing else: command 0x00 latched with CLE high, the five address bytes
\* latched with ALE high, command 0x30 latched with CLE high, the busy-wait
\* polls, and one nRE low/high toggle for each byte of the page; and the
\* buffer holds at index i the byte the device presented at the i-th toggle
\* (PageLen stands for the 2112 bytes of a page).
C5_PageReadSequence ==
    (At("dump_memory", "read_done") \/ At("dump_memory", "write")) =>
        /\ Len(mem_large_block) = PageLen
        /\ \E busy \in 0..MaxPolls :
              events = PageReadEvents(addr_cylces, busy, mem_large_block)

C5_Witness ==
    /\ At("dump_memory", "read_done")
    /\ page_idx = 1
    /\ BusyPolls(events) >= 1
    /\ mem_large_block[1] = 165
    /\ mem_large_block[PageLen] = 0
    /\ events = PageReadEvents(addr_cylces, BusyPolls(events), mem_large_block)

\* dump_memory has been entered and has not returned
InDump ==
    \E i \in 1..Len(stack) : stack[i].fn = "dump_memory" /\ stack[i].pc # "entry"

\* the bytes of the chunks of s, one after the other
Flatten(s) ==
    [i \in 1..(PageLen * Len(s)) |-> s[((i - 1) \div PageLen) + 1][((i - 1) % PageLen) + 1]]

\* C6: during a dump the file holds one page buffer for every page read that
\* has been completed and written, the k-th chunk being the buffer of the k-th
\* page read, pages being read in ascending address order; once the dump over
\* NumPages pages has returned, exactly NumPages page reads have been made and
\* the file holds exactly NumPages * PageLen bytes, chunk k being the buffer
\* of page read k (NumPages stands for 64 * 4096, PageLen for 2112).
C6_DumpAppendsEachPageOnce ==
    /\ InDump =>
          /\ Len(sink) = page_idx
          /\ page_idx <= NumPages
          /\ mem_address = U32(page_idx * PAGE_BYTES)
          /\ Len(page_reads) = (IF At("dump_memory", "write") THEN page_idx + 1 ELSE page_idx)
          /\ sink = SubSeq(page_reads, 1, Len(sink))
          /\ \A k \in 1..Len(sink) : Len(sink[k]) = PageLen
    /\ last.fn = "dump_memory" =>
          /\ Len(page_reads) = NumPages
          /\ sink = page_reads
          /\ Len(Flatten(sink)) = NumPages * PageLen
          /\ \A k \in 1..NumPages : \A i \in 1..PageLen :
                Flatten(sink)[(k - 1) * PageLen + i] = page_reads[k][i]

C6_Witness ==
    /\ last.fn = "dump_memory"
    /\ At("main", "close")
    /\ Len(sink) = NumPages
    /\ sink[1] # sink[NumPages]
    /\ sink = page_reads

\* (a >> 0) & 0xFF, (a >> 8) & 0x0F, (a >> 12) & 0xFF, (a >> 20) & 0xFF,
\* (a >> 28) & 0x03 for the address a = <<high half, low half>>, in plain
\* arithmetic on the halves
CycleFields(a) ==
    << a[2] % 256,
       (a[2] \div 256) % 16,
       (a[2] \div 4096) + 16 * (a[1] % 16),
       (a[1] \div 16) % 256,
       (a[1] \div 4096) % 4 >>

\* C7: for every address a, get_address_cycle_map_x8 yields a & 0xFF,
\* (a >> 8) & 0x0F, (a >> 12) & 0xFF, (a >> 20) & 0xFF and (a >> 28) & 0x03,
\* whatever the state of the buses, and leaves the buses as they were;
\* 0x00000000 maps to 0 0 0 0 0 and 0x10000000 to 0 0 0 0 1.
C7_AddressCycleMap ==
    At("get_address_cycle_map_x8", "done") =>
        /\ addr_cylces = CycleFields(mem_address)
        /\ mem_address = <<0, 0>> => addr_cylces = <<0, 0, 0, 0, 0>>
        /\ mem_address = <<4096, 0>> => addr_cylces = <<0, 0, 0, 0, 1>>
        /\ controlbus_value = top.pre.controlbus_value
        /\ iobus_value = top.pre.iobus_value
        /\ iobus_dir = top.pre.iobus_dir
        /\ hw_controlbus = top.pre.hw_controlbus
        /\ hw_iobus = top.pre.hw_iobus
        /\ trace = <<>>

C7_Witness ==
    /\ At("get_address_cycle_map_x8", "done")
    /\ mem_address = <<65535, 65535>>
    /\ addr_cylces = <<255, 15, 255, 255, 3>>
    /\ controlbus_value = IdleControl

AtWait == At("dump_memory", "wait") \/ At("erase_block", "wait")

\* in the events ev, a poll that found RDY high lies between every event
\* `from` and every later event of kind `to` (with data d, when d is given)
ReadySeenBetween(ev, from, to) ==
    \A i \in 1..Len(ev) : \A k \in (i + 1)..Len(ev) :
        (ev[i] = from /\ ev[k][1] = to[1] /\ (to[2] = None \/ ev[k][2] = to[2]))
            => \E j \in (i + 1)..(k - 1) : ev[j] = <<"RDY", 1>>

\* C8: no nRE toggle follows the second Read command, and no Read Status
\* command follows the second Block Erase command, before a read of the
\* control bus has returned RDY set; the wait is left only by a read that
\* returned RDY set; and a read that returns RDY clear leaves the program in
\* the wait, having written to no bus and changed no pin.
C8_BusyWaitUntilReady ==
    /\ [](/\ ReadySeenBetween(events, <<"CLE", CMD_READ1[2]>>, <<"nRE_low", None>>)
          /\ ReadySeenBetween(events, <<"CLE", CMD_BLOCKERASE[2]>>, <<"CLE", CMD_READSTATUS>>))
    /\ [][ AtWait =>
             /\ stack' # stack =>
                  /\ IsSet(controlbus_val', PIN_RDY)
                  /\ trace' = Append(trace, <<"rd_ctl", controlbus_val'>>)
             /\ ~IsSet(controlbus_val', PIN_RDY) =>
                  /\ stack' = stack
                  /\ busVars' = busVars
                  /\ devVars' = devVars
                  /\ trace' \in {trace, Append(trace, <<"rd_ctl", controlbus_val'>>)} ]_vars

C8_Witness ==
    /\ At("erase_block", "wp")
    /\ \E i \in 1..Len(events) : \E j \in (i + 1)..Len(events) :
          /\ events[i] = <<"RDY", 0>>
          /\ events[j] = <<"CLE", CMD_READSTATUS>>
    /\ IsSet(controlbus_val, PIN_RDY)

\* this step ends the session: main goes on from its last bus statement to
\* ftdi_disable_bitbang and the close of both channels
SessionEnds == At("main", "close") /\ stack' # stack

\* C9: whenever a latch primitive, erase_block or the session ends, the last
\* control byte written to the hardware equals the held control byte: every
\* pin change has been flushed by then, the nWP set and the nWP clear of
\* erase_block included.
C9_PinChangesFlushed ==
    [][ ( \/ Returns("latch_command")
          \/ Returns("latch_address")
          \/ Returns("latch_register")
          \/ Returns("erase_block")
          \/ SessionEnds )
        => hw_controlbus' = controlbus_value' ]_vars

\* every command and every address byte the device has latched was driven by
\* the engine: the direction was output at the rising edge of nWE
LatchedWhileOutput ==
    \A i \in 1..Len(events) :
        events[i][1] \in {"CLE", "ALE", "CLE+ALE", "DATA"} => events[i][2] # None

\* between the start and the end of a data-output sequence of latch_register
InDataOut ==
    \/ At("latch_register", "loop")
    \/ At("latch_register", "read")
    \/ At("latch_register", "nre_high")

\* in the read-back of both buses that main makes once the buses are reset
InStartUpReadBack == At("main", "test_read") \/ At("main", "test_out")

\* C10: the I/O direction is output whenever a command or an address byte is
\* latched, and it is input only between the start and the end of a
\* latch_register sequence; at no other point of the session is it input.
C10_InputOnlyInDataOut ==
    /\ LatchedWhileOutput
    /\ iobus_dir = IOBUS_IN => InDataOut

\* C10 (amended): the I/O direction is output whenever a command or an
\* address byte is latched, and it is input only between the start and the
\* end of a latch_register sequence or during the read-back of the buses at
\* start-up, which is over before the first latch primitive is called.
C10_InputOnlyInDataOutOrStartUp ==
    /\ LatchedWhileOutput
    /\ iobus_dir = IOBUS_IN => (InDataOut \/ InStartUpReadBack)
    /\ InStartUpReadBack =>
          /\ last.fn = "none"
          /\ \A i \in 1..Len(events) : events[i][1] \in {"nRE_low", "nRE_high"}

C10_Witness ==
    /\ At("latch_register", "read")
    /\ top.dst = "mem_large_block"
    /\ iobus_dir = IOBUS_IN
    /\ \E i \in 1..Len(events) : events[i] = <<"CLE", CMD_READ1[2]>>
    /\ last.fn = "latch_command"

\* C11: when main releases and closes the bus channels, the last control byte
\* written to the control bus has nCE high: the chip is deselected on the
\* hardware at the end of the session.
C11_ChipDeselectedAtEnd ==
    (At("main", "close") \/ At("main", "done")) => IsSet(hw_controlbus, PIN_nCE)

\* the control byte c with the pin high, and with the pin low
High(c, pin) == IF IsSet(c, pin) THEN c ELSE c + pin
Low(c, pin) == IF IsSet(c, pin) THEN c - pin ELSE c

\* the control byte on the hardware before entry i of the trace tr, first
\* being the byte on the hardware before tr began
PrevCtl(first, tr, i) ==
    LET js == {j \in 1..(i - 1) : tr[j][1] = "ctl"} IN
    IF js = {} THEN first ELSE tr[CHOOSE j \in js : \A k \in js : k <= j][2]

\* the data byte on the hardware before entry i of the trace tr
PrevIo(first, tr, i) ==
    LET js == {j \in 1..(i - 1) : tr[j][1] = "io"} IN
    IF js = {} THEN first ELSE tr[CHOOSE j \in js : \A k \in js : k <= j][2]

\* the entries of tr that raise nWE on the hardware
RisingEdges(first, tr) ==
    {i \in 1..Len(tr) : /\ tr[i][1] = "ctl"
                        /\ IsSet(tr[i][2], PIN_nWE)
                        /\ ~IsSet(PrevCtl(first, tr, i), PIN_nWE)}

\* C12: a latch_command(op) whose preconditions hold writes, in this order
\* and nothing else: the control byte with CLE high, the control byte with
\* nWE low, the data byte op, the control byte with nWE high, the control
\* byte with CLE low; nWE rises once on the hardware, with CLE high and op the
\* last data byte written; no other pin of the held control byte changes.
C12_LatchCommandSequence ==
    [][ ( /\ Returns("latch_command")
          /\ ~IsSet(top.pre.controlbus_value, PIN_nCE)
          /\ IsSet(top.pre.controlbus_value, PIN_nRE) )
        => LET c0 == top.pre.controlbus_value
               op == top.args[1]
               added == Added(trace', top.pre)
               edges == RisingEdges(top.pre.hw_controlbus, added)
           IN /\ added = << <<"ctl", High(c0, PIN_CLE)>>,
                            <<"ctl", Low(High(c0, PIN_CLE), PIN_nWE)>>,
                            <<"io", op>>,
                            <<"ctl", High(High(c0, PIN_CLE), PIN_nWE)>>,
                            <<"ctl", High(Low(c0, PIN_CLE), PIN_nWE)>> >>
              /\ edges = {4}
              /\ IsSet(added[4][2], PIN_CLE)
              /\ PrevIo(top.pre.hw_iobus, added, 4) = op
              /\ last'.ret = 0
              /\ controlbus_value' = High(Low(c0, PIN_CLE), PIN_nWE)
              /\ hw_controlbus' = controlbus_value' ]_vars

C12_Witness ==
    /\ HarnessDone
    /\ last.fn = "latch_command"
    /\ last.args = <<CMD_READID>>
    /\ last.pre.controlbus_value = PIN_nRE + PIN_nWE
    /\ last.pre.iobus_dir = IOBUS_OUT
    /\ last.ret = 0
    /\ trace = << <<"ctl", 25>>, <<"ctl", 17>>, <<"io", CMD_READID>>,
                  <<"ctl", 25>>, <<"ctl", 24>> >>
    /\ events = << <<"CLE", CMD_READID>> >>

\* the writes of a latch_address of the bytes addr entered with the held
\* control byte c0: ALE high, then for each byte nWE low, the byte, nWE high,
\* and ALE low at the end
AddressWrites(c0, addr) ==
    LET n == Len(addr)
        a == High(c0, PIN_ALE)
    IN [k \in 1..(3 * n + 2) |->
          IF k = 1 THEN <<"ctl", a>>
          ELSE IF k = 3 * n + 2
               THEN <<"ctl", Low(IF n > 0 THEN High(a, PIN_nWE) ELSE a, PIN_ALE)>>
          ELSE IF k % 3 = 2 THEN <<"ctl", Low(a, PIN_nWE)>>
          ELSE IF k % 3 = 0 THEN <<"io", addr[k \div 3]>>
          ELSE <<"ctl", High(a, PIN_nWE)>>]

\* C13: a latch_address of n bytes whose preconditions hold (nCE low, CLE
\* low, nRE high) raises nWE exactly n times on the hardware, each time with
\* ALE high; before the i-th rising edge it has written nWE low and then the
\* i-th byte to the data bus, so that the i-th edge latches the i-th byte;
\* ALE is written low only after the last edge.
C13_LatchAddressSequence ==
    [][ ( /\ Returns("latch_address")
          /\ ~IsSet(top.pre.controlbus_value, PIN_nCE)
          /\ ~IsSet(top.pre.controlbus_value, PIN_CLE)
          /\ IsSet(top.pre.controlbus_value, PIN_nRE) )
        => LET addr == top.args
               n == Len(addr)
               added == Added(trace', top.pre)
               edges == RisingEdges(top.pre.hw_controlbus, added)
           IN /\ last'.ret = 0
              /\ added = AddressWrites(top.pre.controlbus_value, addr)
              /\ Cardinality(edges) = n
              /\ edges = {3 * i + 1 : i \in 1..n}
              /\ \A i \in 1..n :
                    /\ IsSet(added[3 * i + 1][2], PIN_ALE)
                    /\ ~IsSet(PrevCtl(top.pre.hw_controlbus, added, 3 * i + 1), PIN_nWE)
                    /\ added[3 * i] = <<"io", addr[i]>>
                    /\ PrevIo(top.pre.hw_iobus, added, 3 * i + 1) = addr[i]
              /\ \A k \in 1..(Len(added) - 1) :
                    added[k][1] = "ctl" => IsSet(added[k][2], PIN_ALE)
              /\ ~IsSet(added[Len(added)][2], PIN_ALE) ]_vars

C13_Witness ==
    /\ HarnessDone
    /\ last.fn = "latch_address"
    /\ last.args = <<90, 0>>
    /\ last.pre.iobus_dir = IOBUS_OUT
    /\ last.ret = 0
    /\ events = << <<"ALE", 90>>, <<"ALE", 0>> >>
    /\ Cardinality(RisingEdges(last.pre.hw_controlbus, trace)) = 2

\* the entries of tr that lower nRE on the hardware, and those that raise it
FallingRE(first, tr) ==
    {i \in 1..Len(tr) : /\ tr[i][1] = "ctl"
                        /\ ~IsSet(tr[i][2], PIN_nRE)
                        /\ IsSet(PrevCtl(first, tr, i), PIN_nRE)}

RisingRE(first, tr) ==
    {i \in 1..Len(tr) : /\ tr[i][1] = "ctl"
                        /\ IsSet(tr[i][2], PIN_nRE)
                        /\ ~IsSet(PrevCtl(first, tr, i), PIN_nRE)}

\* the array the returning latch_register was given, after the step
Buffer(dst) ==
    IF dst = "reg" THEN reg'
    ELSE IF dst = "ID_register" THEN ID_register'
    ELSE IF dst = "mem_large_block" THEN mem_large_block'
    ELSE <<status_register'>>

\* what the claim C14 says of the accesses `added` of a latch_register of
\* count bytes that was entered with hw on the control bus
DataOutSequence(added, hw, count, buf) ==
    /\ Len(added) = 3 * count + 2
    /\ added[1] = <<"dir", IOBUS_IN>>
    /\ added[Len(added)] = <<"dir", IOBUS_OUT>>
    /\ Cardinality(FallingRE(hw, added)) = count
    /\ FallingRE(hw, added) = {3 * i - 1 : i \in 1..count}
    /\ RisingRE(hw, added) = {3 * i + 1 : i \in 1..count}
    /\ {k \in 1..Len(added) : added[k][1] = "rd_io"} = {3 * i : i \in 1..count}
    /\ \A i \in 1..count : buf[i] = added[3 * i][2]

\* C14: a latch_register of count bytes whose preconditions hold (nCE low,
\* nWE high, ALE low) sets the data bus to input before the first falling
\* edge of nRE, lowers nRE exactly count times on the hardware, samples the
\* data bus once in each iteration, between the write of nRE low and the
\* write of nRE high, stores the i-th sample at index i of the buffer, and
\* sets the data bus back to output only after the last rising edge of nRE.
C14_DataOutSequence ==
    [][ ( /\ Returns("latch_register")
          /\ ~IsSet(top.pre.controlbus_value, PIN_nCE)
          /\ IsSet(top.pre.controlbus_value, PIN_nWE)
          /\ ~IsSet(top.pre.controlbus_value, PIN_ALE) )
        => /\ last'.ret = 0
           /\ DataOutSequence(Added(trace', top.pre), top.pre.hw_controlbus,
                              top.len, Buffer(top.dst)) ]_vars

\* C15: a latch_address entered with nCE high, CLE high or nRE low, and a
\* latch_register entered with nCE high, nWE low or ALE high, return
\* EXIT_FAILURE and have no effect: the held control byte, the held data
\* value and the direction of the data bus are as at entry (latch_register
\* has not set it to input in between), the buffers are untouched and nothing
\* was written to either bus.
C15_LatchRejectsWithoutEffect ==
    [][ ( \/ /\ Returns("latch_address")
             /\ \/ IsSet(top.pre.controlbus_value, PIN_nCE)
                \/ IsSet(top.pre.controlbus_value, PIN_CLE)
                \/ ~IsSet(top.pre.controlbus_value, PIN_nRE)
          \/ /\ Returns("latch_register")
             /\ \/ IsSet(top.pre.controlbus_value, PIN_nCE)
                \/ ~IsSet(top.pre.controlbus_value, PIN_nWE)
                \/ IsSet(top.pre.controlbus_value, PIN_ALE) )
        => /\ last'.ret = EXIT_FAILURE
           /\ last'.ret # 0
           /\ NoEffect
           /\ <<ID_register', mem_large_block', status_register', reg'>> = top.pre.bufs
           /\ devVars' = devVars ]_vars

C15_Witness ==
    /\ HarnessDone
    /\ last.fn = "latch_register"
    /\ last.len = MaxRegLen
    /\ last.pre.controlbus_value = PIN_nRE
    /\ last.pre.iobus_dir = IOBUS_OUT
    /\ last.ret = EXIT_FAILURE
    /\ trace = <<>>
    /\ iobus_dir = IOBUS_OUT
    /\ reg = [i \in 1..MaxRegLen |-> None]

\* the writes of a latch_command(op) entered with the held control byte c0
CommandWrites(c0, op) ==
    << <<"ctl", High(c0, PIN_CLE)>>,
       <<"ctl", Low(High(c0, PIN_CLE), PIN_nWE)>>,
       <<"io", op>>,
       <<"ctl", High(High(c0, PIN_CLE), PIN_nWE)>>,
       <<"ctl", High(Low(c0, PIN_CLE), PIN_nWE)>> >>

\* the accesses of a latch_register of one byte that read s, entered with c0
StatusRead(c0, s) ==
    << <<"dir", IOBUS_IN>>, <<"ctl", Low(c0, PIN_nRE)>>, <<"rd_io", s>>,
       <<"ctl", High(c0, PIN_nRE)>>, <<"dir", IOBUS_OUT>> >>

\* cycles 2, 3 and 4 of the address b * 64 * 2048 = b * 2 * 65536
BlockRowBytes(b) == SubSeq(CycleFields(<<(2 * b) % HALF, 0>>), 3, 5)

\* tr is a busy-wait: reads of the control bus, the last one with RDY set and
\* no other
IsBusyWait(tr) ==
    /\ Len(tr) >= 1
    /\ \A k \in 1..Len(tr) :
          /\ tr[k][1] = "rd_ctl"
          /\ IsSet(tr[k][2], PIN_RDY) <=> k = Len(tr)

\* C16: an erase_block(b) entered with nCE low and nRE high performs, in this
\* order and nothing else: nWP set, command 0x60, three address bytes which
\* are cycles 2, 3 and 4 of the address map of b * 64 * 2048, command 0xD0,
\* the busy-wait, command 0x70, the data-out of one byte, nWP cleared; nWP
\* is high on the hardware at every rising edge of nWE of the sequence.
C16_EraseSequence ==
    [][ ( /\ Returns("erase_block")
          /\ ~IsSet(top.pre.controlbus_value, PIN_nCE)
          /\ IsSet(top.pre.controlbus_value, PIN_nRE) )
        => LET added == Added(trace', top.pre)
               c1 == High(top.pre.controlbus_value, PIN_nWP)
               c2 == High(Low(c1, PIN_CLE), PIN_nWE)
               c3 == Low(c2, PIN_ALE)
               n == Len(added)
               edges == RisingEdges(top.pre.hw_controlbus, added)
           IN /\ n >= 32
              /\ SubSeq(added, 1, 5) = CommandWrites(c1, CMD_BLOCKERASE[1])
              /\ SubSeq(added, 6, 16) = AddressWrites(c2, BlockRowBytes(top.args[1]))
              /\ SubSeq(added, 17, 21) = CommandWrites(c3, CMD_BLOCKERASE[2])
              /\ IsBusyWait(SubSeq(added, 22, n - 10))
              /\ SubSeq(added, n - 9, n - 5) = CommandWrites(c3, CMD_READSTATUS)
              /\ SubSeq(added, n - 4, n) = StatusRead(c3, added[n - 2][2])
              /\ Cardinality(edges) = 6
              /\ \A e \in edges : IsSet(added[e][2], PIN_nWP)
              /\ \A k \in 1..n : added[k][1] = "ctl" => IsSet(added[k][2], PIN_nWP)
              /\ controlbus_value' = Low(c3, PIN_nWP) ]_vars

C16_Witness ==
    /\ HarnessDone
    /\ last.fn = "erase_block"
    /\ last.args = <<1>>
    /\ last.pre.controlbus_value = PIN_nRE
    /\ last.pre.iobus_dir = IOBUS_OUT
    /\ events = << <<"CLE", 96>>, <<"ALE", 32>>, <<"ALE", 0>>, <<"ALE", 0>>,
                   <<"CLE", 208>>, <<"RDY", 0>>, <<"RDY", 1>>, <<"CLE", 112>>,
                   <<"nRE_low", 224>>, <<"nRE_high", None>> >>
    /\ ~IsSet(controlbus_value, PIN_nWP)

\* the address bytes the device has latched since the page read began
LatchedCycles ==
    LET idx == {i \in 1..Len(events) : events[i][1] = "ALE"} IN
    [k \in 1..Cardinality(idx) |->
        events[CHOOSE i \in idx : Cardinality({j \in idx : j <= i}) = k][2]]

\* C17: the five address cycles latched for the page read of page index k
\* have cycle 0 = cycle 1 = 0 (column 0, the start of a page) and cycles 2..4
\* encode the row k, so that every page read starts at a page boundary and no
\* two page reads latch the same row.
C17_PageReadAddressesRow ==
    (InDump /\ ~At("dump_memory", "loop") /\ Len(LatchedCycles) = 5) =>
        /\ LatchedCycles[1] = 0
        /\ LatchedCycles[2] = 0
        /\ LatchedCycles[3] + 256 * LatchedCycles[4] + 65536 * LatchedCycles[5] = page_idx

\* C18: the three row bytes erase_block(b) latches encode a row whose block
\* field, the row bits 6 and up (address bits A18..A29), equals b, so that
\* erase_block(b) addresses block b and distinct block ids address distinct
\* blocks; the address 2048 * 64 * b is computed without overflow of 32 bits.
C18_EraseAddressesBlock ==
    [][ ( /\ Returns("erase_block")
          /\ ~IsSet(top.pre.controlbus_value, PIN_nCE)
          /\ IsSet(top.pre.controlbus_value, PIN_nRE) )
        => LET added == Added(trace', top.pre)
               b == top.args[1]
               row == added[8][2] + 256 * added[11][2] + 65536 * added[14][2]
           IN /\ added[8][1] = "io" /\ added[11][1] = "io" /\ added[14][1] = "io"
              /\ mem_address'[1] * HALF + mem_address'[2] = 2048 * 64 * b
              /\ row \div 64 = b ]_vars

\* the top frame is a latch primitive
InLatch == Len(stack) > 0 /\ top.fn \in {"latch_command", "latch_address", "latch_register"}

\* the number of bus accesses a latch primitive makes for its arguments
LatchSteps(f) ==
    IF f.fn = "latch_command" THEN 5
    ELSE IF f.fn = "latch_address" THEN 3 * Len(f.args) + 2
    ELSE 3 * f.len + 2

\* C19: a latch primitive makes a number of steps fixed by its length
\* argument; when the device presents RDY set some time after each busy-wait
\* has begun, the session (Read ID, the dump of all pages, the teardown) and
\* every single call of a latch primitive or of erase_block come to their
\* end, the stack holding the outermost frame alone then, so that every call
\* and every page read made on the way has returned; and in every busy-wait a
\* read that finds RDY clear is possible, so that without that assumption the
\* wait can go on for ever.
C19_Termination ==
    /\ [](InLatch => Len(trace) - top.pre.tlen <= LatchSteps(top))
    /\ <>(Len(stack) = 1 /\ top.pc = "done")
    /\ [](At("main", "done") => (last.fn = "dump_memory" /\ Len(sink) = NumPages))
    /\ [](AtWait => ENABLED BusyRead)

C19_Witness ==
    /\ At("main", "done")
    /\ last.fn = "dump_memory"
    /\ Len(sink) = NumPages
    /\ IsSet(controlbus_val, PIN_RDY)

\* the bus accesses in tr other than the reads of the busy-wait
ProtocolAccesses(tr) == {k \in 1..Len(tr) : tr[k][1] # "rd_ctl"}

\* C20: erase_block returns success only when every latch primitive it called
\* succeeded, so that all their 31 bus accesses were made (5 for each of the
\* three commands, 11 for the three address bytes, 5 for the status byte), and
\* the status byte it sampled has bit 0 clear; an erase_block entered with
\* nCE high, whose primitives fail, does not return success.
C20_EraseSuccessMeansAllStepsDone ==
    [][ ( Returns("erase_block") /\ last'.ret = 0 )
        => LET added == Added(trace', top.pre) IN
           /\ ~IsSet(top.pre.controlbus_value, PIN_nCE)
           /\ Cardinality(ProtocolAccesses(added)) = 31
           /\ LastRead(added) # None
           /\ ~IsSet(LastRead(added), STATUSREG_IO0) ]_vars

\* the held control byte c has nCE low, CLE low, ALE low, nWE high, nRE high
IdleAfterLatch(c) ==
    /\ ~IsSet(c, PIN_nCE)
    /\ ~IsSet(c, PIN_CLE)
    /\ ~IsSet(c, PIN_ALE)
    /\ IsSet(c, PIN_nWE)
    /\ IsSet(c, PIN_nRE)

\* C21: in every run of the program (bus reset, setup, Read ID, erase_block
\* calls made from the idle state, the page reads of the dump) no latch
\* primitive fails a precondition check: every primitive is entered with its
\* preconditions met, returns 0 and leaves the held control byte with nCE
\* low, CLE low, ALE low, nWE high and nRE high.
C21_NoPreconditionFailure ==
    /\ [](At("latch_command", "entry") => latch_command_precond(controlbus_value))
    /\ [](At("latch_address", "entry") => latch_address_precond(controlbus_value))
    /\ [](At("latch_register", "entry") => latch_register_precond(controlbus_value))
    /\ [][ InLatch /\ stack' = SubSeq(stack, 1, Len(stack) - 1)
           => (last'.ret = 0 /\ IdleAfterLatch(controlbus_value')) ]_vars

C21_Witness ==
    /\ At("dump_memory", "read_done")
    /\ page_idx = NumPages - 1
    /\ n_erase = MaxErase
    /\ last.fn = "latch_register"
    /\ last.ret = 0
    /\ controlbus_value = PIN_nRE + PIN_nWE

\* the first latch primitive of the session has been entered
LatchingBegun == InLatch \/ last.fn # "none"

\* C22: from the first latch primitive onward the control byte on the
\* hardware never has CLE and ALE both high; every rising edge of nWE the
\* device sees latches either a command with ALE low or an address byte with
\* CLE low; and whenever nRE is low, CLE and ALE are low and nWE is high.
C22_LatchEnablesExclusive ==
    LatchingBegun =>
        /\ ~(IsSet(hw_controlbus, PIN_CLE) /\ IsSet(hw_controlbus, PIN_ALE))
        /\ ~IsSet(hw_controlbus, PIN_nRE) =>
              /\ ~IsSet(hw_controlbus, PIN_CLE)
              /\ ~IsSet(hw_controlbus, PIN_ALE)
              /\ IsSet(hw_controlbus, PIN_nWE)
        /\ \A i \in 1..Len(events) : events[i][1] # "CLE+ALE"
        /\ \A i \in 1..Len(trace) :
              trace[i][1] = "ctl" =>
                  /\ ~(IsSet(trace[i][2], PIN_CLE) /\ IsSet(trace[i][2], PIN_ALE))
                  /\ ~IsSet(trace[i][2], PIN_nRE) =>
                        /\ ~IsSet(trace[i][2], PIN_CLE)
                        /\ ~IsSet(trace[i][2], PIN_ALE)
                        /\ IsSet(trace[i][2], PIN_nWE)

C22_Witness ==
    /\ At("latch_register", "read")
    /\ top.dst = "mem_large_block"
    /\ hw_controlbus = PIN_nWE
    /\ \E i \in 1..Len(events) : events[i] = <<"CLE", CMD_READ1[2]>>
    /\ \E i \in 1..Len(events) : events[i][1] = "ALE"

\* the engine and the device both drive the I/O lines
Contention == iobus_dir = IOBUS_OUT /\ OutEn(hw_controlbus)

\* the latest access in the trace is of kind k (the read-back at start-up
\* notes its two reads in one step)
JustDid(k) ==
    /\ Len(trace) > 0
    /\ \/ trace[Len(trace)][1] = k
       \/ Len(trace) > 1 /\ trace[Len(trace)][1] = "rd_ctl" /\ trace[Len(trace) - 1][1] = k

\* C23: from the first write to the control bus at start-up to the teardown,
\* the data bus is never in output direction while the control byte on the
\* hardware has nCE low and nRE low; the engine writes the data bus only
\* while its direction is output and samples it only while it is input.
C23_NoBusContention ==
    /\ ~At("main", "entry") => ~Contention
    /\ JustDid("io") => iobus_dir = IOBUS_OUT
    /\ JustDid("rd_io") => iobus_dir = IOBUS_IN

\* an erase_block call is under way
InErase == \E i \in 1..Len(stack) : stack[i].fn = "erase_block"

\* C24: at every rising edge of nWE on the hardware outside an erase_block
\* call (Read ID and the page reads of the dump, also after erase_block
\* calls) the control byte on the hardware has nWP low.
C24_WriteProtectOutsideErase ==
    [][ ( /\ ~InErase
          /\ ~IsSet(hw_controlbus, PIN_nWE)
          /\ IsSet(hw_controlbus', PIN_nWE) )
        => ~IsSet(hw_controlbus', PIN_nWP) ]_vars

C24_Witness ==
    /\ At("latch_command", "cle_low")
    /\ Len(stack) = 3
    /\ stack[2].fn = "dump_memory"
    /\ page_idx = 0
    /\ top.args = <<CMD_READ1[1]>>
    /\ n_erase = MaxErase
    /\ IsSet(top.pre.hw_controlbus, PIN_nWP)
    /\ IsSet(hw_controlbus, PIN_nWE)
    /\ ~IsSet(hw_controlbus, PIN_nWP)

====
